---- MODULE Spec2Model ----
(***************************************************************************)
(* Model of the Whale-Wallet policy engine (app/policy_engine):            *)
(* PolicyDecision, the built-in rules, PolicyExecutor (load, execute,      *)
(* aggregation) and the PolicyEvaluator facade.                            *)
(*                                                                         *)
(* The specifications share the executor's state and its execute():       *)
(*   Spec       a PolicyExecutor constructed with a list of arbitrary     *)
(*              PolicyRule subclasses, whose evaluate() may return any    *)
(*              PolicyDecision or raise;                                  *)
(*   SpecEval   a PolicyEvaluator (velocity, whitelist and timelock       *)
(*              registered) evaluating transactions against records;      *)
(*   SpecTwice  execute() called twice on the same rules and context;     *)
(*   SpecRule   one built-in rule evaluating one context;                 *)
(*   SpecLoad   register_rule and load_rules_from_config;                 *)
(*   SpecResult the construction of an ExecutionResult;                   *)
(*   SpecLimits get_applicable_limits, then evaluate_transaction;         *)
(*   SpecTasks  two asyncio tasks sharing one PolicyEvaluator.            *)
(***************************************************************************)
EXTENDS Integers, Sequences, FiniteSets, TLC

VARIABLES
    rules,      \* PolicyExecutor.rules: the installed rule list
    registry,   \* PolicyExecutor._rule_registry: the registered rule types
    policies,   \* the records given to load_rules_from_config by the call in progress
    tx,         \* the TransactionContext of the call in progress (NoTx when idle)
    decisions,  \* execute()'s local list of (rule, decision) pairs
    failed,     \* position in rules of the rule whose evaluate() raised, 0 if none
    result,     \* the ExecutionResult the call returned (NoResult when idle)
    pc,         \* where the caller stands: "idle", "loaded" or "done"
    args,       \* the arguments of an ExecutionResult(...) construction (NoArgs when none)
    limits,     \* the dict get_applicable_limits returned (NoLimits when none)
    tasks       \* the asyncio tasks running evaluate_transaction, each with its locals

vars == <<rules, registry, policies, tx, decisions, failed, result, pc, args, limits, tasks>>

\* The state of the calls a specification does not make.
aside == <<args, limits, tasks>>

(***************************************************************************)
(* Bounds of the model.                                                    *)
(***************************************************************************)
MaxRules == 2

\* Python's None for an optional integer (delay_seconds, config values).
None == -1
\* Python's None for an optional string (blocking_rule).
NoRule == "<None>"

NoTx == [idle |-> TRUE]
NoResult == [idle |-> TRUE]
NoArgs == [idle |-> TRUE]
NoLimits == [idle |-> TRUE]
NoTasks == <<>>

InitAside ==
    /\ args = NoArgs
    /\ limits = NoLimits
    /\ tasks = NoTasks

\* DecisionType
ALLOW == "allow"
BLOCK == "block"
DELAY == "delay"
REQUIRE_2FA == "require_2fa"
WARN == "warn"

DefaultDelaySeconds == 86400

Range(s) == {s[i] : i \in 1..Len(s)}

\* Python truthiness of an optional integer: None and 0 are falsy.
Truthy(n) == n # None /\ n # 0

(***************************************************************************)
(* PolicyDecision and its factories (rules/base.py).                       *)
(***************************************************************************)
PolicyDecision(allowed, require_2fa, delay_seconds, warnings, required_actions, reason) ==
    [allowed |-> allowed, require_2fa |-> require_2fa, delay_seconds |-> delay_seconds,
     warnings |-> warnings, required_actions |-> required_actions, reason |-> reason]

allow(warnings) == PolicyDecision(TRUE, FALSE, None, warnings, <<>>, "")

block(reason) == PolicyDecision(FALSE, FALSE, None, <<>>, <<>>, reason)

delay(seconds, reason) == PolicyDecision(TRUE, FALSE, seconds, <<>>, <<>>, reason)

require_verification(action) == PolicyDecision(TRUE, TRUE, None, <<>>, <<action>>, "")

(***************************************************************************)
(* ExecutionResult with __post_init__ (executor.py).                       *)
(***************************************************************************)
\* Mutant: only a missing delay is defaulted, a delay of 0 is kept.
PostInitDelay_NoneOnly(decision, delay_seconds) ==
    IF decision = DELAY /\ delay_seconds = None
    THEN DefaultDelaySeconds
    ELSE delay_seconds

PostInitDelay(decision, delay_seconds) ==
    IF decision = DELAY /\ ~Truthy(delay_seconds)
    THEN DefaultDelaySeconds
    ELSE delay_seconds

ExecutionResult(decision, blocking_rule, delay_seconds, warnings, required_actions, rules_evaluated) ==
    [decision |-> decision, blocking_rule |-> blocking_rule,
     delay_seconds |-> PostInitDelay(decision, delay_seconds),
     warnings |-> warnings, required_actions |-> required_actions,
     rules_evaluated |-> rules_evaluated]

(***************************************************************************)
(* PolicyRule instances.  A rule is its fixed name, config and priority    *)
(* plus the class that decides evaluate(): a built-in type, or "custom"    *)
(* for an arbitrary PolicyRule subclass.                                   *)
(***************************************************************************)
PolicyRule(rule_type, name, config, priority) ==
    [rule_type |-> rule_type, name |-> name, config |-> config, priority |-> priority]

NoConfig == [custom |-> TRUE]

RuleName(i) == "R" \o ToString(i)

Priorities == {1, 2}

\* What one evaluate() call does: it raises, or it returns a decision.
Returns(decision) == [raises |-> FALSE, decision |-> decision]
Raises == [raises |-> TRUE, decision |-> block("exception")]

\* The decisions an arbitrary PolicyRule subclass may return.
DelayValues == {None, 0, 1, 2}
WarningLists == {<<>>, <<"w1">>}
ActionLists == {<<>>, <<"a1">>}

CustomDecisions ==
    {PolicyDecision(a, f, d, w, r, "") :
        a \in BOOLEAN, f \in BOOLEAN, d \in DelayValues,
        w \in WarningLists, r \in ActionLists}

CustomOutcomes == {Raises} \cup {Returns(d) : d \in CustomDecisions}

(***************************************************************************)
(* PolicyExecutor._aggregate_decisions (executor.py): one pass over the    *)
(* (rule, decision) pairs, each accumulator updated as the loop body does. *)
(***************************************************************************)
\* Mutant: a delaying rule overrides an earlier BLOCK.
StepFinalDecision_DelayOverridesBlock(final_decision, d) ==
    IF ~d.allowed THEN BLOCK
    ELSE IF Truthy(d.delay_seconds) THEN DELAY
    ELSE IF d.require_2fa
         THEN (IF final_decision \notin {BLOCK, DELAY} THEN REQUIRE_2FA ELSE final_decision)
    ELSE IF d.warnings # <<>>
         THEN (IF final_decision = ALLOW THEN WARN ELSE final_decision)
    ELSE final_decision

\* Mutant: 2FA is taken only while the decision is still ALLOW.
StepFinalDecision_WarnHides2fa(final_decision, d) ==
    IF ~d.allowed THEN BLOCK
    ELSE IF Truthy(d.delay_seconds)
         THEN (IF final_decision # BLOCK THEN DELAY ELSE final_decision)
    ELSE IF d.require_2fa
         THEN (IF final_decision = ALLOW THEN REQUIRE_2FA ELSE final_decision)
    ELSE IF d.warnings # <<>>
         THEN (IF final_decision = ALLOW THEN WARN ELSE final_decision)
    ELSE final_decision

\* Mutant: the warnings branch is missing.
StepFinalDecision_NoWarn(final_decision, d) ==
    IF ~d.allowed THEN BLOCK
    ELSE IF Truthy(d.delay_seconds)
         THEN (IF final_decision # BLOCK THEN DELAY ELSE final_decision)
    ELSE IF d.require_2fa
         THEN (IF final_decision \notin {BLOCK, DELAY} THEN REQUIRE_2FA ELSE final_decision)
    ELSE final_decision

StepFinalDecision(final_decision, d) ==
    IF ~d.allowed THEN BLOCK
    ELSE IF Truthy(d.delay_seconds)
         THEN (IF final_decision # BLOCK THEN DELAY ELSE final_decision)
    ELSE IF d.require_2fa
         THEN (IF final_decision \notin {BLOCK, DELAY} THEN REQUIRE_2FA ELSE final_decision)
    ELSE IF d.warnings # <<>>
         THEN (IF final_decision = ALLOW THEN WARN ELSE final_decision)
    ELSE final_decision

\* Mutant: among equal delays the last one is kept.
TakesDelay_LastOfTies(acc, d) ==
    /\ d.allowed
    /\ Truthy(d.delay_seconds)
    /\ acc.final_decision # BLOCK
    /\ (acc.delay_seconds = None \/ d.delay_seconds >= acc.delay_seconds)

\* Mutant: the first delay is kept, not the longest.
TakesDelay_First(acc, d) ==
    /\ d.allowed
    /\ Truthy(d.delay_seconds)
    /\ acc.final_decision # BLOCK
    /\ acc.delay_seconds = None

\* The "elif decision.delay_seconds" branch assigns delay_seconds and blocking_rule.
TakesDelay(acc, d) ==
    /\ d.allowed
    /\ Truthy(d.delay_seconds)
    /\ acc.final_decision # BLOCK
    /\ (acc.delay_seconds = None \/ d.delay_seconds > acc.delay_seconds)

\* Mutant: only a blocking rule is named, a delaying one is not.
StepBlockingRule_BlocksOnly(acc, name, d) ==
    IF ~d.allowed
    THEN (IF acc.final_decision # BLOCK THEN name ELSE acc.blocking_rule)
    ELSE acc.blocking_rule

StepBlockingRule(acc, name, d) ==
    IF ~d.allowed
    THEN (IF acc.final_decision # BLOCK THEN name ELSE acc.blocking_rule)
    ELSE IF TakesDelay(acc, d) THEN name ELSE acc.blocking_rule

StepDelaySeconds(acc, d) ==
    IF TakesDelay(acc, d) THEN d.delay_seconds ELSE acc.delay_seconds

\* The "elif decision.require_2fa" branch appends "2fa_required".
Appends2fa(acc, d) ==
    /\ d.allowed
    /\ ~Truthy(d.delay_seconds)
    /\ d.require_2fa
    /\ acc.final_decision \notin {BLOCK, DELAY}

StepActions(acc, d) ==
    acc.all_actions \o d.required_actions
        \o (IF Appends2fa(acc, d) THEN <<"2fa_required">> ELSE <<>>)

StepWarnings(acc, d) == acc.all_warnings \o d.warnings

AggregateStep(acc, pair) ==
    [final_decision  |-> StepFinalDecision(acc.final_decision, pair.decision),
     blocking_rule   |-> StepBlockingRule(acc, pair.rule.name, pair.decision),
     delay_seconds   |-> StepDelaySeconds(acc, pair.decision),
     all_warnings    |-> StepWarnings(acc, pair.decision),
     all_actions     |-> StepActions(acc, pair.decision),
     rules_evaluated |-> Append(acc.rules_evaluated, pair.rule.name)]

AggregateInit ==
    [final_decision |-> ALLOW, blocking_rule |-> NoRule, delay_seconds |-> None,
     all_warnings |-> <<>>, all_actions |-> <<>>, rules_evaluated |-> <<>>]

RECURSIVE AggregateLoop(_, _)
AggregateLoop(pairs, n) ==
    IF n = 0 THEN AggregateInit
    ELSE AggregateStep(AggregateLoop(pairs, n - 1), pairs[n])

\* Mutant: the collected list is returned as it is.
ListOfSet_NoDedupe(xs) == {xs}

\* list(set(xs)): the distinct members of xs, in an order the build chooses.
ListOfSet(xs) ==
    {s \in [1..Cardinality(Range(xs)) -> Range(xs)] : Range(s) = Range(xs)}

\* The results _aggregate_decisions may return for these pairs.
AggregateDecisions(pairs) ==
    LET acc == AggregateLoop(pairs, Len(pairs))
    IN  {ExecutionResult(acc.final_decision, acc.blocking_rule, acc.delay_seconds,
                         ws, as, acc.rules_evaluated) :
            ws \in ListOfSet(acc.all_warnings), as \in ListOfSet(acc.all_actions)}

(***************************************************************************)
(* TransactionContext (executor.py).  Amounts are whole dollars; the       *)
(* current time is kept as the UTC weekday (0 = Monday) and hour.          *)
(***************************************************************************)
TransactionContext(value_usd, daily_outflow_usd, is_new_address, address_in_whitelist, current_time, duress_mode_active) ==
    [value_usd |-> value_usd, daily_outflow_usd |-> daily_outflow_usd,
     is_new_address |-> is_new_address, address_in_whitelist |-> address_in_whitelist,
     current_time |-> current_time, duress_mode_active |-> duress_mode_active]

(***************************************************************************)
(* VelocityRule.evaluate (rules/velocity.py).  A config key is None when   *)
(* absent, NotANumber when its value does not parse as a Decimal.          *)
(***************************************************************************)
NotANumber == -2
SecondsPerHour == 3600
DefaultDelayHours == 24

VelocityConfig(max_daily_usd, max_per_tx_usd, require_2fa_above_usd, delay_hours_above_usd, delay_hours) ==
    [max_daily_usd |-> max_daily_usd, max_per_tx_usd |-> max_per_tx_usd,
     require_2fa_above_usd |-> require_2fa_above_usd,
     delay_hours_above_usd |-> delay_hours_above_usd, delay_hours |-> delay_hours]

\* Mutant: an amount equal to the limit exceeds it.
Exceeds_Inclusive(amount, limit) == limit # None /\ amount >= limit

\* amount > Decimal(str(config.get(key, float("inf")))): nothing exceeds an absent limit.
Exceeds(amount, limit) == limit # None /\ amount > limit

VelocityDelaySeconds(config) ==
    (IF config.delay_hours = None THEN DefaultDelayHours ELSE config.delay_hours)
        * SecondsPerHour

\* Mutant: the 2FA threshold is checked before the delay threshold.
VelocityEvaluate_TwoFactorFirst(config, t) ==
    IF config.max_daily_usd = NotANumber \/ config.max_per_tx_usd = NotANumber
    THEN Raises
    ELSE IF Exceeds(t.value_usd, config.max_per_tx_usd)
    THEN Returns(block("per_tx_limit"))
    ELSE IF Exceeds(t.daily_outflow_usd + t.value_usd, config.max_daily_usd)
    THEN Returns(block("daily_limit"))
    ELSE IF config.require_2fa_above_usd = NotANumber
    THEN Raises
    ELSE IF Exceeds(t.value_usd, config.require_2fa_above_usd)
    THEN Returns(require_verification("2fa_required"))
    ELSE IF config.delay_hours_above_usd = NotANumber
    THEN Raises
    ELSE IF Exceeds(t.value_usd, config.delay_hours_above_usd)
    THEN Returns(delay(VelocityDelaySeconds(config), "delay_required"))
    ELSE Returns(allow(<<>>))

VelocityEvaluate(config, t) ==
    IF config.max_daily_usd = NotANumber \/ config.max_per_tx_usd = NotANumber
    THEN Raises
    ELSE IF Exceeds(t.value_usd, config.max_per_tx_usd)
    THEN Returns(block("per_tx_limit"))
    ELSE IF Exceeds(t.daily_outflow_usd + t.value_usd, config.max_daily_usd)
    THEN Returns(block("daily_limit"))
    ELSE IF config.delay_hours_above_usd = NotANumber
    THEN Raises
    ELSE IF Exceeds(t.value_usd, config.delay_hours_above_usd)
    THEN Returns(delay(VelocityDelaySeconds(config), "delay_required"))
    ELSE IF config.require_2fa_above_usd = NotANumber
    THEN Raises
    ELSE IF Exceeds(t.value_usd, config.require_2fa_above_usd)
    THEN Returns(require_verification("2fa_required"))
    ELSE Returns(allow(<<>>))

(***************************************************************************)
(* WhitelistRule.evaluate (rules/whitelist.py).                            *)
(***************************************************************************)
NoMode == "<absent>"

WhitelistConfig(mode, require_2fa_for_new, quarantine_hours_for_new) ==
    [mode |-> mode, require_2fa_for_new |-> require_2fa_for_new,
     quarantine_hours_for_new |-> quarantine_hours_for_new]

WhitelistMode(config) == IF config.mode = NoMode THEN "warn_unknown" ELSE config.mode

\* Mutant: for a new address 2FA is checked before the quarantine.
WhitelistEvaluate_TwoFactorFirst(config, t) ==
    IF t.address_in_whitelist
    THEN Returns(allow(<<>>))
    ELSE IF t.is_new_address
    THEN IF WhitelistMode(config) = "block_unknown"
         THEN Returns(block("not_in_whitelist"))
         ELSE IF config.require_2fa_for_new
         THEN Returns(PolicyDecision(TRUE, TRUE, None, <<"new_address">>,
                                     <<"2fa_required">>, "2fa_for_new"))
         ELSE IF Truthy(config.quarantine_hours_for_new)
         THEN Returns(PolicyDecision(TRUE, FALSE,
                                     config.quarantine_hours_for_new * SecondsPerHour,
                                     <<"new_address">>, <<>>, "quarantine"))
         ELSE Returns(allow(<<"new_address">>))
    ELSE Returns(allow(<<"add_to_whitelist">>))

WhitelistEvaluate(config, t) ==
    IF t.address_in_whitelist
    THEN Returns(allow(<<>>))
    ELSE IF t.is_new_address
    THEN IF WhitelistMode(config) = "block_unknown"
         THEN Returns(block("not_in_whitelist"))
         ELSE IF Truthy(config.quarantine_hours_for_new)
         THEN Returns(PolicyDecision(TRUE, FALSE,
                                     config.quarantine_hours_for_new * SecondsPerHour,
                                     <<"new_address">>, <<>>, "quarantine"))
         ELSE IF config.require_2fa_for_new
         THEN Returns(PolicyDecision(TRUE, TRUE, None, <<"new_address">>,
                                     <<"2fa_required">>, "2fa_for_new"))
         ELSE Returns(allow(<<"new_address">>))
    ELSE Returns(allow(<<"add_to_whitelist">>))

(***************************************************************************)
(* TimelockRule.evaluate (rules/timelock.py).                              *)
(***************************************************************************)
HoursPerDay == 24
DaysPerWeek == 7
Saturday == 5

TimelockConfig(block_start_hour, block_end_hour, timezone, block_weekends) ==
    [block_start_hour |-> block_start_hour, block_end_hour |-> block_end_hour,
     timezone |-> timezone, block_weekends |-> block_weekends]

\* ZoneInfo(name): the zone's offset from UTC in hours; an unknown name raises and
\* evaluate() falls back to the context's own time.
ZoneOffset(timezone) ==
    CASE timezone = "UTC" -> 0
      [] timezone = "Asia/Tokyo" -> 9
      [] OTHER -> 0

\* current_time.astimezone(tz)
AsTimezone(current_time, timezone) ==
    LET h == current_time.hour + ZoneOffset(timezone)
    IN  [hour |-> h % HoursPerDay,
         weekday |-> (current_time.weekday + (h \div HoursPerDay)) % DaysPerWeek]

\* Mutant: an overnight window (start > end) is not wrapped around midnight.
IsInBlockedPeriod_NoWraparound(current, start, end) ==
    start <= current /\ current < end

IsInBlockedPeriod(current, start, end) ==
    IF start <= end
    THEN start <= current /\ current < end
    ELSE current >= start \/ current < end

\* Mutant: the hours are not carried over midnight.
HoursUntil_SameDay(current_hour, end_hour) == end_hour - current_hour

HoursUntil(current_hour, end_hour) ==
    IF end_hour > current_hour
    THEN end_hour - current_hour
    ELSE (HoursPerDay - current_hour) + end_hour

\* The reason of an hour block: "... Try again in ~{hours_until} hours."
BlockedHoursReason(hours_until) == "blocked_hours:" \o ToString(hours_until)

\* Mutant: the weekend check reads the weekday before the timezone conversion.
TimelockEvaluate_UnconvertedWeekday(config, t) ==
    LET current == AsTimezone(t.current_time, config.timezone)
    IN  IF config.block_weekends /\ t.current_time.weekday >= Saturday
        THEN Returns(block("weekend"))
        ELSE IF /\ config.block_start_hour # None
                /\ config.block_end_hour # None
                /\ IsInBlockedPeriod(current.hour, config.block_start_hour,
                                     config.block_end_hour)
        THEN Returns(block(BlockedHoursReason(HoursUntil(current.hour, config.block_end_hour))))
        ELSE Returns(allow(<<>>))

TimelockEvaluate(config, t) ==
    LET current == AsTimezone(t.current_time, config.timezone)
    IN  IF config.block_weekends /\ current.weekday >= Saturday
        THEN Returns(block("weekend"))
        ELSE IF /\ config.block_start_hour # None
                /\ config.block_end_hour # None
                /\ IsInBlockedPeriod(current.hour, config.block_start_hour,
                                     config.block_end_hour)
        THEN Returns(block(BlockedHoursReason(HoursUntil(current.hour, config.block_end_hour))))
        ELSE Returns(allow(<<>>))

(***************************************************************************)
(* rule.evaluate(context): the outcomes the rule's class can produce.      *)
(***************************************************************************)
\* Mutant: the timelock reads the wall clock, not the context's current_time.
Evaluate_WallClock(rule, t) ==
    CASE rule.rule_type = "velocity"  -> {VelocityEvaluate(rule.config, t)}
      [] rule.rule_type = "whitelist" -> {WhitelistEvaluate(rule.config, t)}
      [] rule.rule_type = "timelock"  ->
            {TimelockEvaluate(rule.config, [t EXCEPT !.current_time = now]) :
                now \in {[weekday |-> 0, hour |-> 12], [weekday |-> 5, hour |-> 12]}}
      [] OTHER -> CustomOutcomes

Evaluate(rule, t) ==
    CASE rule.rule_type = "velocity"  -> {VelocityEvaluate(rule.config, t)}
      [] rule.rule_type = "whitelist" -> {WhitelistEvaluate(rule.config, t)}
      [] rule.rule_type = "timelock"  -> {TimelockEvaluate(rule.config, t)}
      [] OTHER -> CustomOutcomes

\* One outcome per rule of the list, in list order.
OutcomeSeqs(rs, t) ==
    {outs \in [1..Len(rs) -> UNION {Evaluate(rs[i], t) : i \in 1..Len(rs)}] :
        \A i \in 1..Len(rs) : outs[i] \in Evaluate(rs[i], t)}

(***************************************************************************)
(* PolicyExecutor.execute (executor.py).                                   *)
(***************************************************************************)
DuressResult ==
    ExecutionResult(ALLOW, NoRule, None, <<"DURESS_MODE_ACTIVE">>, <<>>,
                    <<"duress_intercept">>)

\* The position of the first rule whose evaluate() raises, 0 when none does.
FirstRaise(outs) ==
    IF \E i \in 1..Len(outs) : outs[i].raises
    THEN CHOOSE i \in 1..Len(outs) :
            outs[i].raises /\ \A j \in 1..(i - 1) : ~outs[j].raises
    ELSE 0

\* decisions: the pairs appended before the loop ended.
Collected(rs, outs, n) == [i \in 1..n |-> [rule |-> rs[i], decision |-> outs[i].decision]]

ErrorBlockingRule(name) == name \o " (evaluation error)"

\* Mutant: a raising rule is skipped and the call allowed.
ErrorResult_FailOpen(pairs, rule) ==
    ExecutionResult(ALLOW, NoRule, None, <<>>, <<>>,
                    [i \in 1..Len(pairs) |-> pairs[i].rule.name])

ErrorResult(pairs, rule) ==
    ExecutionResult(BLOCK, ErrorBlockingRule(rule.name), None, <<>>, <<>>,
                    Append([i \in 1..Len(pairs) |-> pairs[i].rule.name], rule.name))

\* Mutant: the duress check is missing.
IsDuress_Ignored(t) == FALSE

IsDuress(t) == t.duress_mode_active

\* execute() on the rule list rs: self.rules as the loop reads it.
Execute(rs, t) ==
    /\ tx' = t
    /\ IF IsDuress(t)
       THEN /\ decisions' = <<>>
            /\ failed' = 0
            /\ result' = DuressResult
       ELSE \E outs \in OutcomeSeqs(rs, t) :
              LET k == FirstRaise(outs) IN
              IF k > 0
              THEN /\ decisions' = Collected(rs, outs, k - 1)
                   /\ failed' = k
                   /\ result' = ErrorResult(Collected(rs, outs, k - 1), rs[k])
              ELSE /\ decisions' = Collected(rs, outs, Len(rs))
                   /\ failed' = 0
                   /\ result' \in AggregateDecisions(Collected(rs, outs, Len(rs)))

\* The caller takes the result; the call's locals are gone.
Return ==
    /\ pc = "done"
    /\ pc' = "idle"
    /\ tx' = NoTx
    /\ policies' = <<>>
    /\ decisions' = <<>>
    /\ failed' = 0
    /\ result' = NoResult
    /\ UNCHANGED <<rules, registry>>
    /\ UNCHANGED aside

(***************************************************************************)
(* Spec: a PolicyExecutor constructed with a rule list in any order.       *)
(***************************************************************************)
CustomRule(i, priority) == PolicyRule("custom", RuleName(i), NoConfig, priority)

ConstructorRuleLists ==
    UNION {{[i \in 1..n |-> CustomRule(i, p[i])] : p \in [1..n -> Priorities]} :
            n \in 0..MaxRules}

CustomTransactions ==
    {TransactionContext(1, 0, TRUE, FALSE, [weekday |-> 0, hour |-> 0], d) : d \in BOOLEAN}

\* PolicyExecutor.__init__(rules)
Init ==
    /\ rules \in ConstructorRuleLists
    /\ registry = {}
    /\ policies = <<>>
    /\ tx = NoTx
    /\ decisions = <<>>
    /\ failed = 0
    /\ result = NoResult
    /\ pc = "idle"
    /\ InitAside

\* await executor.execute(tx)
ExecuteCall ==
    /\ pc = "idle"
    /\ pc' = "done"
    /\ \E t \in CustomTransactions : Execute(rules, t)
    /\ UNCHANGED <<rules, registry, policies>>
    /\ UNCHANGED aside

Next == ExecuteCall \/ Return

Spec == Init /\ [][Next]_vars

(***************************************************************************)
(* PolicyExecutor.load_rules_from_config (executor.py).                    *)
(***************************************************************************)
PolicyRecord(rule_type, name, config, priority, is_active) ==
    [rule_type |-> rule_type, name |-> name, config |-> config,
     priority |-> priority, is_active |-> is_active]

\* policy.get(key, default): a record is a dict, a key it lacks is absent.
Get(policy, key, default) == IF key \in DOMAIN policy THEN policy[key] ELSE default

\* policy.get("rule_type") of a record without the key: None, which no registry holds.
NoRuleType == "<None>"
DefaultPriority == 0

\* The config {} read by a rule of the given class: every key absent.
EmptyConfig(rule_type) ==
    CASE rule_type = "velocity"  -> VelocityConfig(None, None, None, None, None)
      [] rule_type = "whitelist" -> WhitelistConfig(NoMode, FALSE, None)
      [] rule_type = "timelock"  -> TimelockConfig(None, None, "UTC", FALSE)
      [] OTHER -> NoConfig

\* rule_class(name=..., config=..., priority=...) for a record of a registered type.
RuleFromRecord(policy) ==
    PolicyRule(policy.rule_type,
               Get(policy, "name", policy.rule_type),
               Get(policy, "config", EmptyConfig(policy.rule_type)),
               Get(policy, "priority", DefaultPriority))

\* Mutant: inactive records are instantiated too.
RECURSIVE Instantiate_KeepsInactive(_, _, _)
Instantiate_KeepsInactive(ps, n, reg) ==
    IF n = 0 THEN <<>>
    ELSE IF Get(ps[n], "rule_type", NoRuleType) \notin reg
    THEN Instantiate_KeepsInactive(ps, n - 1, reg)
    ELSE Append(Instantiate_KeepsInactive(ps, n - 1, reg), RuleFromRecord(ps[n]))

\* The loop: inactive and unregistered records are skipped, the others instantiated.
RECURSIVE Instantiate(_, _, _)
Instantiate(ps, n, reg) ==
    IF n = 0 THEN <<>>
    ELSE IF ~Get(ps[n], "is_active", TRUE) \/ Get(ps[n], "rule_type", NoRuleType) \notin reg
    THEN Instantiate(ps, n - 1, reg)
    ELSE Append(Instantiate(ps, n - 1, reg), RuleFromRecord(ps[n]))

\* Mutant: a rule goes in front of the rules of equal priority that came before it.
InsertByPriority_Unstable(sorted, rule) ==
    LET k == Cardinality({i \in 1..Len(sorted) : sorted[i].priority > rule.priority})
    IN  SubSeq(sorted, 1, k) \o <<rule>> \o SubSeq(sorted, k + 1, Len(sorted))

\* list.sort(key = priority, reverse = True) is stable: a rule goes behind the
\* rules of higher or equal priority that came before it.
InsertByPriority(sorted, rule) ==
    LET k == Cardinality({i \in 1..Len(sorted) : sorted[i].priority >= rule.priority})
    IN  SubSeq(sorted, 1, k) \o <<rule>> \o SubSeq(sorted, k + 1, Len(sorted))

RECURSIVE SortLoop(_, _)
SortLoop(rs, n) ==
    IF n = 0 THEN <<>> ELSE InsertByPriority(SortLoop(rs, n - 1), rs[n])

\* Mutant: the list is left in the order of the records.
SortByPriority_Unsorted(rs) == rs

SortByPriority(rs) == SortLoop(rs, Len(rs))

LoadRulesFromConfig(ps, reg) == SortByPriority(Instantiate(ps, Len(ps), reg))

(***************************************************************************)
(* SpecEval: a PolicyEvaluator (evaluator.py) evaluating transactions      *)
(* against policy records.                                                 *)
(***************************************************************************)
BuiltinRuleTypes == {"velocity", "whitelist", "timelock"}

VelocityConfigs ==
    {VelocityConfig(3, 2, 0, None, None),
     VelocityConfig(None, None, 0, 1, 0),
     VelocityConfig(None, NotANumber, None, None, None)}

WhitelistConfigs ==
    {WhitelistConfig("block_unknown", FALSE, None), WhitelistConfig(NoMode, TRUE, 1)}

TimelockConfigs == {TimelockConfig(22, 6, "UTC", TRUE)}

TypedConfigs ==
    ({"velocity"} \X VelocityConfigs) \cup ({"whitelist"} \X WhitelistConfigs)
        \cup ({"timelock"} \X TimelockConfigs) \cup {<<"multisig", NoConfig>>}

\* Inactive records: rules that would block if they were loaded.
InactiveConfigs == {<<"whitelist", WhitelistConfig("block_unknown", FALSE, None)>>}

\* The records at position i of a policy list.
PolicyRecordsAt(i) ==
    {PolicyRecord(c[1], RuleName(i), c[2], p, TRUE) :
        c \in TypedConfigs, p \in Priorities}
    \cup {PolicyRecord(c[1], RuleName(i), c[2], p, FALSE) :
        c \in InactiveConfigs, p \in Priorities}

PolicyLists ==
    UNION {{ps \in [1..n -> UNION {PolicyRecordsAt(i) : i \in 1..n}] :
                \A i \in 1..n : ps[i] \in PolicyRecordsAt(i)} : n \in 0..MaxRules}

Amounts == 0..3
DailyOutflows == {0, 2}
\* Monday noon, Monday 23:00, Saturday noon (UTC).
Times == {[weekday |-> 0, hour |-> 12], [weekday |-> 0, hour |-> 23],
          [weekday |-> 5, hour |-> 12]}

\* PolicyEvaluator.__init__
InitEval ==
    /\ rules = <<>>
    /\ registry = BuiltinRuleTypes
    /\ policies = <<>>
    /\ tx = NoTx
    /\ decisions = <<>>
    /\ failed = 0
    /\ result = NoResult
    /\ pc = "idle"
    /\ InitAside

\* The context evaluate_transaction builds from its arguments.
EvaluatorContext(value_usd, daily_outflow_usd, is_new_address, now, duress_mode) ==
    TransactionContext(value_usd, daily_outflow_usd, is_new_address, ~is_new_address,
                       now, duress_mode)

\* evaluate_transaction, first statement: self.executor.load_rules_from_config(policies)
LoadRules ==
    /\ pc = "idle"
    /\ pc' = "loaded"
    /\ \E ps \in PolicyLists :
          /\ policies' = ps
          /\ rules' = LoadRulesFromConfig(ps, registry)
    /\ UNCHANGED <<registry, tx, decisions, failed, result>>
    /\ UNCHANGED aside

\* Mutant: execute() consumes the rule list as it evaluates it.
ExecutePolicies_DrainsRules ==
    /\ pc = "loaded"
    /\ pc' = "done"
    /\ \E v \in Amounts, o \in DailyOutflows, new \in BOOLEAN, now \in Times,
          duress \in BOOLEAN :
          Execute(rules, EvaluatorContext(v, o, new, now, duress))
    /\ rules' = <<>>
    /\ UNCHANGED <<registry, policies>>
    /\ UNCHANGED aside

\* evaluate_transaction, the rest: build the context and await executor.execute(context)
ExecutePolicies ==
    /\ pc = "loaded"
    /\ pc' = "done"
    /\ \E v \in Amounts, o \in DailyOutflows, new \in BOOLEAN, now \in Times,
          duress \in BOOLEAN :
          Execute(rules, EvaluatorContext(v, o, new, now, duress))
    /\ UNCHANGED <<rules, registry, policies>>
    /\ UNCHANGED aside

NextEval == LoadRules \/ ExecutePolicies \/ Return

SpecEval == InitEval /\ [][NextEval]_vars

(***************************************************************************)
(* Properties of execute().                                                *)
(***************************************************************************)
Done == pc = "done"
DuressCall == Done /\ tx.duress_mode_active
\* A non-duress call in which no rule raised: the result comes from aggregation.
Aggregated == Done /\ ~tx.duress_mode_active /\ failed = 0

Blockers == {i \in 1..Len(decisions) : ~decisions[i].decision.allowed}
Delayers == {i \in 1..Len(decisions) : decisions[i].decision.delay_seconds # None}
PositiveDelayers == {i \in 1..Len(decisions) : decisions[i].decision.delay_seconds > 0}
TwoFactor == {i \in 1..Len(decisions) : decisions[i].decision.require_2fa}
Warners == {i \in 1..Len(decisions) : decisions[i].decision.warnings # <<>>}

NoDuplicates(s) == \A i, j \in 1..Len(s) : s[i] = s[j] => i = j
NamesOf(rs) == [i \in 1..Len(rs) |-> rs[i].name]
MaxOf(S) == CHOOSE m \in S : \A x \in S : x <= m

\* C1: under duress, whatever the rule list, execute() returns ALLOW with warnings
\* ["DURESS_MODE_ACTIVE"] and rules_evaluated ["duress_intercept"], and calls no
\* rule's evaluate().
C1_DuressAllows ==
    DuressCall =>
        /\ result.decision = ALLOW
        /\ result.warnings = <<"DURESS_MODE_ACTIVE">>
        /\ result.rules_evaluated = <<"duress_intercept">>
        /\ decisions = <<>>
        /\ failed = 0

C1_Witness == DuressCall /\ Len(rules) = 2

\* C2: when a rule's evaluate() raises in a non-duress call, execute() returns
\* BLOCK naming that rule with " (evaluation error)", evaluates no later rule, and
\* lists the rules evaluated before it followed by it, whatever those returned.
C2_FailClosed ==
    (Done /\ ~tx.duress_mode_active /\ failed > 0) =>
        /\ result.decision = BLOCK
        /\ result.blocking_rule = rules[failed].name \o " (evaluation error)"
        /\ result.rules_evaluated = SubSeq(NamesOf(rules), 1, failed)
        /\ Len(decisions) = failed - 1
        /\ \A i \in 1..Len(decisions) : decisions[i].rule = rules[i]

C2_Witness ==
    /\ Done
    /\ failed = 2
    /\ decisions[1].decision = allow(<<>>)

\* C3: when no rule raises and some rule returns allowed = false, the final
\* decision is BLOCK, wherever that rule stands and whatever the others return.
C3_AnyBlockBlocks ==
    (Aggregated /\ Blockers # {}) => result.decision = BLOCK

C3_Witness ==
    /\ Aggregated
    /\ Len(decisions) = 2
    /\ Blockers = {1}
    /\ decisions[2].decision.delay_seconds = 2
    /\ decisions[2].decision.require_2fa

\* C4: when aggregation yields BLOCK, blocking_rule names the highest-priority
\* rule among those that returned allowed = false (the earliest supplied one among
\* equal priorities), also for a rule list passed to the constructor in any order.
C4_BlockingRuleIsHighestPriority ==
    (Aggregated /\ result.decision = BLOCK) =>
        \E i \in Blockers :
            /\ result.blocking_rule = decisions[i].rule.name
            /\ \A j \in Blockers :
                \/ decisions[j].rule.priority < decisions[i].rule.priority
                \/ (decisions[j].rule.priority = decisions[i].rule.priority /\ i <= j)

\* C5 as stated: when no rule raises or blocks and some rule returns a
\* delay_seconds that is not None (0 included), the decision is DELAY with the
\* maximum delay_seconds over the rules that returned one.
C5_AnyDelayDelays ==
    (Aggregated /\ Blockers = {} /\ Delayers # {}) =>
        /\ result.decision = DELAY
        /\ result.delay_seconds =
              MaxOf({decisions[i].decision.delay_seconds : i \in Delayers})

\* C5 amended: when no rule raises or blocks and some rule returns a positive
\* delay_seconds, the decision is DELAY with the maximum delay_seconds over the
\* rules that returned one; a delay_seconds of 0 counts as no delay.
C5_PositiveDelayDelays ==
    (Aggregated /\ Blockers = {} /\ PositiveDelayers # {}) =>
        /\ result.decision = DELAY
        /\ result.delay_seconds =
              MaxOf({decisions[i].decision.delay_seconds : i \in Delayers})

C5_Witness ==
    /\ Aggregated
    /\ Blockers = {}
    /\ Len(decisions) = 2
    /\ decisions[1].decision.delay_seconds = 2
    /\ decisions[2].decision.delay_seconds = 1
    /\ result.delay_seconds = 2

\* C6: when no rule raises, blocks or sets delay_seconds and some rule requires
\* 2FA, the decision is REQUIRE_2FA and required_actions holds "2fa_required",
\* also when other rules return only warnings.
C6_TwoFactorRequired ==
    (Aggregated /\ Blockers = {} /\ Delayers = {} /\ TwoFactor # {}) =>
        /\ result.decision = REQUIRE_2FA
        /\ "2fa_required" \in Range(result.required_actions)

C6_Witness ==
    /\ Aggregated
    /\ Len(decisions) = 2
    /\ decisions[1].decision = allow(<<"w1">>)
    /\ decisions[2].decision = PolicyDecision(TRUE, TRUE, None, <<>>, <<>>, "")
    /\ result.decision = REQUIRE_2FA

\* C7: when no rule raises, blocks, sets delay_seconds or requires 2FA, the
\* decision is WARN if some rule returned warnings and ALLOW otherwise (ALLOW for
\* an empty rule list).
C7_WarnOrAllow ==
    (Aggregated /\ Blockers = {} /\ Delayers = {} /\ TwoFactor = {}) =>
        result.decision = (IF Warners # {} THEN WARN ELSE ALLOW)

C7_Witness ==
    /\ Aggregated
    /\ Len(decisions) = 2
    /\ decisions[1].decision = allow(<<>>)
    /\ decisions[2].decision = allow(<<"w1">>)
    /\ result.decision = WARN

\* C8: when no rule raises, the result's warnings are, as a set, the union of the
\* evaluated rules' warnings, its required_actions hold every rule's required
\* actions, and neither list repeats a string.
C8_UnionDeduplicated ==
    Aggregated =>
        /\ Range(result.warnings) =
              UNION {Range(decisions[i].decision.warnings) : i \in 1..Len(decisions)}
        /\ \A i \in 1..Len(decisions) :
              Range(decisions[i].decision.required_actions)
                  \subseteq Range(result.required_actions)
        /\ NoDuplicates(result.warnings)
        /\ NoDuplicates(result.required_actions)

C8_Witness ==
    /\ Aggregated
    /\ Len(decisions) = 2
    /\ Blockers = {1}
    /\ decisions[1].decision.warnings = <<"w1">>
    /\ decisions[2].decision.warnings = <<"w1">>
    /\ decisions[2].decision.required_actions = <<"a1">>
    /\ decisions[1].decision.required_actions = <<"a1">>

(***************************************************************************)
(* Properties of load_rules_from_config followed by execute().             *)
(***************************************************************************)
\* The positions of the supplied records that are active and of a registered type.
Kept == {i \in 1..Len(policies) : policies[i].is_active /\ policies[i].rule_type \in registry}

\* Where record i stands once the kept records are ordered by priority, highest
\* first, records of equal priority in the order supplied.
PlaceOf(i) ==
    1 + Cardinality({j \in Kept :
            \/ policies[j].priority > policies[i].priority
            \/ (policies[j].priority = policies[i].priority /\ j < i)})

ExpectedNames ==
    [k \in 1..Cardinality(Kept) |-> policies[CHOOSE i \in Kept : PlaceOf(i) = k].name]

\* C9 as stated: in every evaluation rules_evaluated is the list of the names of
\* the active, recognized rules supplied, by priority descending, each once.
C9_AllRulesAlwaysListed ==
    Done => result.rules_evaluated = ExpectedNames

\* C9 amended: that holds for every non-duress evaluation in which no rule raises
\* (also when an earlier rule already decided); under duress rules_evaluated is
\* ["duress_intercept"], and when a rule raises it is that list cut off after the
\* raising rule.
C9_RulesEvaluatedInPriorityOrder ==
    Done =>
        result.rules_evaluated =
            IF tx.duress_mode_active THEN <<"duress_intercept">>
            ELSE IF failed > 0 THEN SubSeq(ExpectedNames, 1, failed)
            ELSE ExpectedNames

C9_Witness ==
    /\ Aggregated
    /\ Len(policies) = 2
    /\ Kept = {1, 2}
    /\ policies[1].priority < policies[2].priority
    /\ result.decision = BLOCK
    /\ result.blocking_rule = policies[2].name
    /\ result.rules_evaluated = <<policies[2].name, policies[1].name>>

\* The results execute() may return on rule list rs for transaction t.
ExecuteResults(rs, t) ==
    IF IsDuress(t) THEN {DuressResult}
    ELSE UNION {IF FirstRaise(outs) > 0
                THEN {ErrorResult(Collected(rs, outs, FirstRaise(outs) - 1),
                                  rs[FirstRaise(outs)])}
                ELSE AggregateDecisions(Collected(rs, outs, Len(rs))) :
                outs \in OutcomeSeqs(rs, t)}

\* ALLOW < WARN < REQUIRE_2FA < DELAY < BLOCK
Restrictiveness(decision) ==
    CASE decision = ALLOW -> 0
      [] decision = WARN -> 1
      [] decision = REQUIRE_2FA -> 2
      [] decision = DELAY -> 3
      [] decision = BLOCK -> 4

\* C10: for a fixed list of built-in rules and two non-duress transactions that
\* differ only in value_usd, the larger amount gets a decision at least as
\* restrictive as the smaller one.
C10_MonotoneInAmount ==
    (Done /\ ~tx.duress_mode_active) =>
        \A v \in Amounts :
            v >= tx.value_usd =>
                \A r \in ExecuteResults(rules, [tx EXCEPT !.value_usd = v]) :
                    Restrictiveness(r.decision) >= Restrictiveness(result.decision)

(***************************************************************************)
(* SpecTwice: a caller that loads policy records once and then awaits      *)
(* executor.execute(context) twice with the same context, holding the      *)
(* first result while the second call runs.                                *)
(***************************************************************************)
\* The second await executor.execute(context): same executor, equal context.
ExecuteAgain ==
    /\ pc = "done"
    /\ pc' = "repeated"
    /\ Execute(rules, tx)
    /\ UNCHANGED <<rules, registry, policies>>
    /\ UNCHANGED aside

NextTwice == LoadRules \/ ExecutePolicies \/ ExecuteAgain

SpecTwice == InitEval /\ [][NextTwice]_vars

\* Equal in every field but the order of warnings and required_actions.
SameResult(a, b) ==
    /\ a.decision = b.decision
    /\ a.blocking_rule = b.blocking_rule
    /\ a.delay_seconds = b.delay_seconds
    /\ Range(a.warnings) = Range(b.warnings)
    /\ Range(a.required_actions) = Range(b.required_actions)
    /\ a.rules_evaluated = b.rules_evaluated

OrdersOf(n) == {p \in [1..n -> 1..n] : \A i, j \in 1..n : p[i] = p[j] => i = j}

\* The pairs of the call in progress, taken in the order p.
Reordered(p) == [i \in 1..Len(decisions) |-> decisions[p[i]]]

\* C12: in a non-duress call where no rule raises, evaluating the same rules in
\* any other order yields the same decision, the same delay_seconds, the same set
\* of warnings and the same set of required_actions.
C12_OrderIndependent ==
    Aggregated =>
        \A p \in OrdersOf(Len(decisions)) :
            \A r \in AggregateDecisions(Reordered(p)) :
                /\ r.decision = result.decision
                /\ r.delay_seconds = result.delay_seconds
                /\ Range(r.warnings) = Range(result.warnings)
                /\ Range(r.required_actions) = Range(result.required_actions)

(***************************************************************************)
(* SpecRule: a PolicyExecutor constructed with one rule of a built-in      *)
(* class, evaluating contexts built directly (test_policy_engine.py).      *)
(***************************************************************************)
RuleLimits == {None, NotANumber, 0, 2, 3}
RuleDelayHours == {None, 0, 1}

VelocityRuleConfigs ==
    {VelocityConfig(d, p, f, a, h) :
        d \in RuleLimits, p \in RuleLimits, f \in RuleLimits, a \in RuleLimits,
        h \in RuleDelayHours}

WhitelistModes == {NoMode, "block_unknown", "warn_unknown", "audit"}
QuarantineHours == {None, 0, 1, 2}

WhitelistRuleConfigs ==
    {WhitelistConfig(m, f, q) :
        m \in WhitelistModes, f \in BOOLEAN, q \in QuarantineHours}

BlockHours == {None} \cup (0..(HoursPerDay - 1))
\* "Mars/Olympus" is no zone ZoneInfo knows.
Timezones == {"UTC", "Asia/Tokyo", "Mars/Olympus"}

TimelockRuleConfigs ==
    {TimelockConfig(s, e, z, w) :
        s \in BlockHours, e \in BlockHours, z \in Timezones, w \in BOOLEAN}

BuiltinRules ==
    {PolicyRule("velocity", RuleName(1), c, 1) : c \in VelocityRuleConfigs}
    \cup {PolicyRule("whitelist", RuleName(1), c, 1) : c \in WhitelistRuleConfigs}
    \cup {PolicyRule("timelock", RuleName(1), c, 1) : c \in TimelockRuleConfigs}

\* Friday, Saturday, Sunday (UTC).
RuleWeekdays == {4, 5, 6}
Noon == [weekday |-> 0, hour |-> 12]

\* The contexts that exercise a rule: the fields its class reads vary, the others
\* keep the dataclass defaults.
RuleTransactions(rule) ==
    CASE rule.rule_type = "velocity" ->
            {TransactionContext(v, o, TRUE, FALSE, Noon, FALSE) :
                v \in Amounts, o \in DailyOutflows}
      [] rule.rule_type = "whitelist" ->
            {TransactionContext(1, 0, new, listed, Noon, FALSE) :
                new \in BOOLEAN, listed \in BOOLEAN}
      [] rule.rule_type = "timelock" ->
            {TransactionContext(1, 0, TRUE, FALSE, [weekday |-> d, hour |-> h], FALSE) :
                d \in RuleWeekdays, h \in 0..(HoursPerDay - 1)}

\* PolicyExecutor(rules=[rule])
InitRule ==
    /\ rules \in {<<r>> : r \in BuiltinRules}
    /\ registry = {}
    /\ policies = <<>>
    /\ tx = NoTx
    /\ decisions = <<>>
    /\ failed = 0
    /\ result = NoResult
    /\ pc = "idle"
    /\ InitAside

\* await executor.execute(context), which awaits rule.evaluate(policy_context)
EvaluateRule ==
    /\ pc = "idle"
    /\ pc' = "done"
    /\ \E t \in RuleTransactions(rules[1]) : Execute(rules, t)
    /\ UNCHANGED <<rules, registry, policies>>
    /\ UNCHANGED aside

NextRule == EvaluateRule \/ Return

SpecRule == InitRule /\ [][NextRule]_vars

(***************************************************************************)
(* Properties of the built-in rules' evaluate().                           *)
(***************************************************************************)
\* The single rule's evaluate() was called on tx, and returned or raised.
Evaluated(rule_type) == Done /\ Len(rules) = 1 /\ rules[1].rule_type = rule_type
Returned(rule_type) == Evaluated(rule_type) /\ failed = 0
Decision == decisions[1].decision
Config == rules[1].config

IsNumber(x) == x \notin {None, NotANumber}
Over(amount, limit) == IsNumber(limit) /\ amount > limit
OverPerTx == Over(tx.value_usd, Config.max_per_tx_usd)
OverDaily == Over(tx.daily_outflow_usd + tx.value_usd, Config.max_daily_usd)

\* C13: VelocityRule.evaluate returns allowed = false exactly when value_usd >
\* max_per_tx_usd or daily_outflow_usd + value_usd > max_daily_usd (strictly; an
\* absent limit never blocks), with the per-transaction reason when that limit is
\* exceeded and the daily reason when only the daily one is; with limits that are
\* numbers or absent it does return in those cases.
C13_VelocityBlocksExactlyOverLimit ==
    /\ Returned("velocity") =>
          /\ ~Decision.allowed <=> (OverPerTx \/ OverDaily)
          /\ OverPerTx => Decision.reason = "per_tx_limit"
          /\ (~OverPerTx /\ OverDaily) => Decision.reason = "daily_limit"
    /\ (/\ Evaluated("velocity")
        /\ Config.max_per_tx_usd # NotANumber
        /\ Config.max_daily_usd # NotANumber
        /\ (OverPerTx \/ OverDaily)) => failed = 0

\* An amount and a projected total equal to their limits pass.
C13_Witness ==
    /\ Returned("velocity")
    /\ tx.value_usd = Config.max_per_tx_usd
    /\ tx.daily_outflow_usd + tx.value_usd = Config.max_daily_usd
    /\ tx.daily_outflow_usd > 0
    /\ Decision.allowed

OverDelayThreshold == Over(tx.value_usd, Config.delay_hours_above_usd)
Over2faThreshold == Over(tx.value_usd, Config.require_2fa_above_usd)
ConfiguredDelayHours ==
    IF Config.delay_hours = None THEN DefaultDelayHours ELSE Config.delay_hours

\* C14: when neither velocity limit blocks, VelocityRule.evaluate returns: above
\* delay_hours_above_usd, allowed with delay_seconds = delay_hours * 3600
\* (delay_hours defaulting to 24) and no 2FA, also when the 2FA threshold is
\* exceeded too; else above require_2fa_above_usd, allowed with require_2fa,
\* required_actions ["2fa_required"] and no delay; else a plain allow.  With
\* thresholds that are numbers or absent it does return.
C14_VelocityDelayThen2fa ==
    /\ (Returned("velocity") /\ ~OverPerTx /\ ~OverDaily) =>
          /\ Decision.allowed
          /\ Decision.warnings = <<>>
          /\ IF OverDelayThreshold
             THEN /\ Decision.delay_seconds = ConfiguredDelayHours * 3600
                  /\ ~Decision.require_2fa
                  /\ Decision.required_actions = <<>>
             ELSE IF Over2faThreshold
             THEN /\ Decision.delay_seconds = None
                  /\ Decision.require_2fa
                  /\ Decision.required_actions = <<"2fa_required">>
             ELSE Decision = allow(<<>>)
    /\ (/\ Evaluated("velocity")
        /\ Config.max_per_tx_usd # NotANumber
        /\ Config.max_daily_usd # NotANumber
        /\ Config.delay_hours_above_usd # NotANumber
        /\ Config.require_2fa_above_usd # NotANumber) => failed = 0

\* Both thresholds exceeded: the delay is returned, without 2FA.
C14_Witness ==
    /\ Returned("velocity")
    /\ OverDelayThreshold
    /\ Over2faThreshold
    /\ Config.delay_hours = None
    /\ Decision.delay_seconds = 86400
    /\ ~Decision.require_2fa

\* The mode the rule runs in: "warn_unknown" when the key is absent.
ConfiguredMode == IF Config.mode = NoMode THEN "warn_unknown" ELSE Config.mode
Unlisted == ~tx.address_in_whitelist
PlainAllow == Decision = allow(<<>>)

\* Rows (a), (b) and (d) of the whitelist table.
WhitelistRowsABD ==
    /\ tx.address_in_whitelist => PlainAllow
    /\ (Unlisted /\ tx.is_new_address /\ ConfiguredMode = "block_unknown") =>
          ~Decision.allowed
    /\ (Unlisted /\ ~tx.is_new_address) =>
          /\ Decision.allowed
          /\ Len(Decision.warnings) = 1
          /\ Decision.delay_seconds = None
          /\ ~Decision.require_2fa
          /\ Decision.required_actions = <<>>

\* Row (c) for a new, unlisted address, given whether the quarantine applies.
WhitelistRowC(quarantined) ==
    /\ Decision.allowed
    /\ Len(Decision.warnings) = 1
    /\ IF quarantined
       THEN /\ Decision.delay_seconds = Config.quarantine_hours_for_new * 3600
            /\ ~Decision.require_2fa
       ELSE IF Config.require_2fa_for_new
       THEN /\ Decision.delay_seconds = None
            /\ Decision.require_2fa
            /\ Decision.required_actions = <<"2fa_required">>
       ELSE /\ Decision.delay_seconds = None
            /\ ~Decision.require_2fa
            /\ Decision.required_actions = <<>>

C16_BlockModeOnlyAllowsWhitelisted ==
    (Returned("whitelist") /\ Config.mode = "block_unknown" /\ Unlisted) =>
        ~Decision.allowed

\* The context's time in the rule's configured timezone.
LocalTime == AsTimezone(tx.current_time, Config.timezone)
WeekendBlockApplies == Config.block_weekends /\ LocalTime.weekday \in {5, 6}

InBlockedWindow ==
    /\ Config.block_start_hour # None
    /\ Config.block_end_hour # None
    /\ IF Config.block_start_hour <= Config.block_end_hour
       THEN /\ Config.block_start_hour <= LocalTime.hour
            /\ LocalTime.hour < Config.block_end_hour
       ELSE \/ LocalTime.hour >= Config.block_start_hour
            \/ LocalTime.hour < Config.block_end_hour

\* C17: when the weekend block does not apply, TimelockRule.evaluate returns
\* allowed = false exactly when both hour bounds are set and the current hour in
\* the configured timezone lies in the blocked interval (start <= h < end, or
\* h >= start or h < end when start > end); in every other case, start = end and
\* a single bound included, it returns a plain allow.  evaluate() never raises.
C17_TimelockBlocksInsideWindow ==
    /\ (Returned("timelock") /\ ~WeekendBlockApplies) =>
          /\ ~Decision.allowed <=> InBlockedWindow
          /\ ~InBlockedWindow => PlainAllow
    /\ Evaluated("timelock") => failed = 0

\* 20:00 UTC is 05:00 in Tokyo, inside the overnight window 22:00 - 06:00.
C17_Witness ==
    /\ Returned("timelock")
    /\ ~WeekendBlockApplies
    /\ Config.timezone = "Asia/Tokyo"
    /\ Config.block_start_hour = 22
    /\ Config.block_end_hour = 6
    /\ tx.current_time.hour = 20
    /\ ~Decision.allowed

(***************************************************************************)
(* SpecLoad: a PolicyExecutor constructed with some rules, on which rule   *)
(* types are registered and policy records loaded, any number of times.    *)
(***************************************************************************)
LoadableTypes == {"velocity"}
RecordTypes == {"velocity", "whitelist"}
RecordPriorities == {1, 2}

\* A record with keys left out.
Without(policy, keys) == [k \in (DOMAIN policy) \ keys |-> policy[k]]

FullRecord(i, rule_type, priority, is_active) ==
    PolicyRecord(rule_type, RuleName(i), EmptyConfig(rule_type), priority, is_active)

\* The records at position i of a list: every key present, or is_active absent,
\* or priority absent, or only rule_type present, or rule_type absent, or an
\* inactive record with nothing else.
LoadRecordsAt(i) ==
    {FullRecord(i, t, p, a) : t \in RecordTypes, p \in RecordPriorities, a \in BOOLEAN}
    \cup {Without(FullRecord(i, t, p, TRUE), {"is_active"}) :
            t \in RecordTypes, p \in RecordPriorities}
    \cup {Without(FullRecord(i, t, 1, a), {"priority"}) : t \in RecordTypes, a \in BOOLEAN}
    \cup {[rule_type |-> t] : t \in RecordTypes}
    \cup {Without(FullRecord(i, "velocity", 2, TRUE), {"rule_type"}),
          [is_active |-> FALSE]}

LoadRecordLists ==
    UNION {{ps \in [1..n -> UNION {LoadRecordsAt(i) : i \in 1..n}] :
                \A i \in 1..n : ps[i] \in LoadRecordsAt(i)} : n \in 0..MaxRules}

\* executor.register_rule(rule_type, rule_class)
RegisterRule ==
    /\ pc = "idle"
    /\ \E rule_type \in LoadableTypes : registry' = registry \cup {rule_type}
    /\ UNCHANGED <<rules, policies, tx, decisions, failed, result, pc>>
    /\ UNCHANGED aside

\* executor.load_rules_from_config(policies)
LoadConfig ==
    /\ pc = "idle"
    /\ pc' = "loaded"
    /\ \E ps \in LoadRecordLists :
          /\ policies' = ps
          /\ rules' = LoadRulesFromConfig(ps, registry)
    /\ UNCHANGED <<registry, tx, decisions, failed, result>>
    /\ UNCHANGED aside

\* load_rules_from_config returns None; its argument is the caller's again.
ReturnLoad ==
    /\ pc = "loaded"
    /\ pc' = "idle"
    /\ policies' = <<>>
    /\ UNCHANGED <<rules, registry, tx, decisions, failed, result>>
    /\ UNCHANGED aside

NextLoad == RegisterRule \/ LoadConfig \/ ReturnLoad

SpecLoad == Init /\ [][NextLoad]_vars

(***************************************************************************)
(* Properties of load_rules_from_config.                                   *)
(***************************************************************************)
Loaded == pc = "loaded"

\* Record i is active (is_active true or absent) and of a registered type.
Wanted(i) ==
    /\ ("is_active" \notin DOMAIN policies[i] \/ policies[i].is_active)
    /\ "rule_type" \in DOMAIN policies[i]
    /\ policies[i].rule_type \in registry
WantedRecords == {i \in 1..Len(policies) : Wanted(i)}

\* The rule built from a record's name, config and priority, with the defaults of
\* load_rules_from_config for the keys the record lacks.
BuiltFrom(policy) ==
    [rule_type |-> policy.rule_type,
     name |-> IF "name" \in DOMAIN policy THEN policy.name ELSE policy.rule_type,
     config |-> IF "config" \in DOMAIN policy THEN policy.config
                ELSE EmptyConfig(policy.rule_type),
     priority |-> IF "priority" \in DOMAIN policy THEN policy.priority ELSE 0]

\* C18: after load_rules_from_config the rule list holds exactly one rule per
\* supplied record that is active (is_active true or absent) and of a registered
\* type, built from that record's name, config and priority, and nothing else:
\* no rule for an inactive or unregistered record, none from an earlier load or
\* from the constructor.
C18_LoadKeepsActiveRegistered ==
    Loaded =>
        \E place \in [WantedRecords -> 1..Len(rules)] :
            /\ \A i, j \in WantedRecords : place[i] = place[j] => i = j
            /\ \A k \in 1..Len(rules) : \E i \in WantedRecords : place[i] = k
            /\ \A i \in WantedRecords : rules[place[i]] = BuiltFrom(policies[i])

\* An inactive record and an unregistered one are skipped, a record without
\* is_active is kept.
C18_Witness ==
    /\ Loaded
    /\ Len(policies) = 2
    /\ "is_active" \notin DOMAIN policies[2]
    /\ WantedRecords = {2}
    /\ "is_active" \in DOMAIN policies[1]
    /\ ~policies[1].is_active
    /\ Len(rules) = 1

PriorityOfRecord(i) ==
    IF "priority" \in DOMAIN policies[i] THEN policies[i].priority ELSE 0

\* The rank of kept record i: behind the kept records of higher priority and the
\* earlier ones of equal priority.
RankOf(i) ==
    1 + Cardinality({j \in WantedRecords :
            \/ PriorityOfRecord(j) > PriorityOfRecord(i)
            \/ (PriorityOfRecord(j) = PriorityOfRecord(i) /\ j < i)})

\* C19: after load_rules_from_config the rule list is in non-increasing order of
\* priority, and rules of equal priority stand in the order of their records.
C19_SortedByPriorityStable ==
    Loaded =>
        /\ Len(rules) = Cardinality(WantedRecords)
        /\ \A k \in 1..(Len(rules) - 1) : rules[k].priority >= rules[k + 1].priority
        /\ \A i \in WantedRecords : rules[RankOf(i)] = BuiltFrom(policies[i])

\* Two kept records of equal priority stay in the order supplied.
C19_Witness ==
    /\ Loaded
    /\ Len(policies) = 2
    /\ WantedRecords = {1, 2}
    /\ PriorityOfRecord(1) = 2
    /\ PriorityOfRecord(2) = 2
    /\ rules[1].name = "R1"
    /\ rules[2].name = "R2"

(***************************************************************************)
(* Attribution of a DELAY.                                                 *)
(***************************************************************************)
LongestDelay == MaxOf({decisions[i].decision.delay_seconds : i \in PositiveDelayers})

\* C20: when the final decision is DELAY, blocking_rule names the rule that
\* returned the maximum delay_seconds, the earliest evaluated one when several
\* returned it, and not the first rule that asked for any delay.
C20_DelayNamesLongestDelay ==
    (Aggregated /\ result.decision = DELAY) =>
        \E i \in PositiveDelayers :
            /\ decisions[i].decision.delay_seconds = LongestDelay
            /\ \A j \in 1..(i - 1) : decisions[j].decision.delay_seconds # LongestDelay
            /\ result.blocking_rule = decisions[i].rule.name

\* A shorter delay comes first; the later, longer one is named.
C20_Witness ==
    /\ Aggregated
    /\ result.decision = DELAY
    /\ Len(decisions) = 2
    /\ decisions[1].decision.delay_seconds = 1
    /\ decisions[2].decision.delay_seconds = 2
    /\ result.blocking_rule = decisions[2].rule.name

(***************************************************************************)
(* SpecResult: ExecutionResult(...) constructed from any arguments; the    *)
(* dataclass runs __post_init__ on the new object.                         *)
(***************************************************************************)
DecisionTypes == {ALLOW, BLOCK, DELAY, REQUIRE_2FA, WARN}
DelayArguments == {None, 0, 1, 3600, 86400}
BlockingRuleArguments == {NoRule, RuleName(1)}
RulesEvaluatedArguments == {<<>>, <<RuleName(1)>>}

InitResult ==
    /\ rules = <<>>
    /\ registry = {}
    /\ policies = <<>>
    /\ tx = NoTx
    /\ decisions = <<>>
    /\ failed = 0
    /\ result = NoResult
    /\ pc = "idle"
    /\ InitAside

\* result = ExecutionResult(decision=..., blocking_rule=..., delay_seconds=..., ...)
Construct ==
    /\ pc = "idle"
    /\ pc' = "built"
    /\ \E d \in DecisionTypes, b \in BlockingRuleArguments, s \in DelayArguments,
          w \in WarningLists, a \in ActionLists, e \in RulesEvaluatedArguments :
          /\ args' = [decision |-> d, blocking_rule |-> b, delay_seconds |-> s,
                      warnings |-> w, required_actions |-> a, rules_evaluated |-> e]
          /\ result' = ExecutionResult(d, b, s, w, a, e)
    /\ UNCHANGED <<rules, registry, policies, tx, decisions, failed, limits, tasks>>

\* The object goes out of scope.
Discard ==
    /\ pc = "built"
    /\ pc' = "idle"
    /\ args' = NoArgs
    /\ result' = NoResult
    /\ UNCHANGED <<rules, registry, policies, tx, decisions, failed, limits, tasks>>

NextResult == Construct \/ Discard

SpecResult == InitResult /\ [][NextResult]_vars

Built == pc = "built"

\* C21: every ExecutionResult with decision DELAY carries a delay_seconds that is
\* neither None nor 0: constructed without a delay value (None or 0) it gets
\* 86400, constructed with one it keeps it; a result with any other decision
\* keeps the delay_seconds it was given, and no other field is touched.
C21_DelayResultHasDelay ==
    Built =>
        /\ result.decision = DELAY => result.delay_seconds \notin {None, 0}
        /\ (args.decision = DELAY /\ args.delay_seconds \in {None, 0}) =>
              result.delay_seconds = 86400
        /\ (args.decision = DELAY /\ args.delay_seconds \notin {None, 0}) =>
              result.delay_seconds = args.delay_seconds
        /\ args.decision # DELAY => result = args
        /\ [result EXCEPT !.delay_seconds = args.delay_seconds] = args

\* A DELAY result constructed with delay_seconds = 0.
C21_Witness ==
    /\ Built
    /\ args.decision = DELAY
    /\ args.delay_seconds = 0
    /\ result.delay_seconds = 86400

\* The context of the call in progress, moved to another weekday.
OnWeekday(d) == [tx EXCEPT !.current_time = [weekday |-> d, hour |-> tx.current_time.hour]]

\* C22: with block_weekends true and the converted weekday Saturday or Sunday,
\* TimelockRule returns allowed = false with the weekend reason, for every hour
\* and every hour-bound configuration; with block_weekends false (or absent) the
\* weekday never affects the decision.
C22_WeekendBlock ==
    Returned("timelock") =>
        /\ (Config.block_weekends /\ LocalTime.weekday \in {5, 6}) =>
              /\ ~Decision.allowed
              /\ Decision.reason = "weekend"
        /\ ~Config.block_weekends =>
              \A d \in 0..6 :
                  TimelockEvaluate(Config, OnWeekday(d)) = Returns(Decision)

\* Friday 20:00 UTC is Saturday 05:00 in Tokyo; no hour window is configured.
C22_Witness ==
    /\ Returned("timelock")
    /\ Config.block_weekends
    /\ Config.timezone = "Asia/Tokyo"
    /\ Config.block_start_hour = None
    /\ tx.current_time = [weekday |-> 4, hour |-> 20]
    /\ ~Decision.allowed

BlockedOnHours == Returned("timelock") /\ ~Decision.allowed /\ Decision.reason # "weekend"

\* C23: whenever TimelockRule blocks on the hour window (hour and bounds in
\* 0..23), the hours_until it reports lies in 1..23 and leads from the current
\* hour to the end of the window: (h + hours_until) mod 24 = end.
C23_HoursUntilWindowEnds ==
    BlockedOnHours =>
        \E hours_until \in 1..23 :
            /\ Decision.reason = BlockedHoursReason(hours_until)
            /\ (LocalTime.hour + hours_until) % 24 = Config.block_end_hour

\* 23:00 inside the overnight window 22:00 - 06:00: seven hours to go.
C23_Witness ==
    /\ BlockedOnHours
    /\ Config.block_start_hour = 22
    /\ Config.block_end_hour = 6
    /\ LocalTime.hour = 23
    /\ Decision.reason = BlockedHoursReason(7)

(***************************************************************************)
(* Frame of execute().                                                     *)
(***************************************************************************)
\* C24: execute() changes nothing but its return value: on every path (duress,
\* rule error, aggregation) the rule list with each rule's name, config and
\* priority, the registry and the records are the same after the call as before,
\* and the context and rule list left behind are the ones the result came from.
C24_ExecuteChangesNothing ==
    [][(pc = "loaded" /\ pc' = "done") =>
            /\ rules' = rules
            /\ registry' = registry
            /\ policies' = policies
            /\ result' \in ExecuteResults(rules', tx')]_vars

\* A call that ended on the rule-error path, its two rules still installed.
C24_Witness ==
    /\ Done
    /\ failed = 2
    /\ Len(rules) = 2
    /\ rules = LoadRulesFromConfig(policies, registry)
    /\ result.decision = BLOCK

(***************************************************************************)
(* SpecLimits: PolicyEvaluator.get_applicable_limits (evaluator.py), then  *)
(* evaluate_transaction with the same records on the same evaluator.       *)
(***************************************************************************)
\* float("inf"), above every amount and limit.
Infinity == 1000000

\* if config.get(key): None (absent) and 0 are falsy, a string is truthy (Truthy).
\* min(limits[key], config[key]) raises TypeError on a string.
MinRaises(value) == value = NotANumber

\* limits[key] after one velocity record: unchanged on a falsy value.
TightenLimit(current, value) ==
    IF Truthy(value) /\ value < current THEN value ELSE current

LimitsRaised == [raised |-> "TypeError"]

InitialLimits ==
    [daily_limit_usd |-> Infinity, per_tx_limit_usd |-> Infinity,
     requires_2fa_above_usd |-> Infinity, blocked_hours |-> <<>>,
     whitelist_mode |-> NoMode]

\* One pass of the loop body of get_applicable_limits.
LimitsStep(acc, policy) ==
    LET rule_type == Get(policy, "rule_type", NoRuleType)
        config == Get(policy, "config", EmptyConfig(rule_type))
    IN  IF acc = LimitsRaised \/ ~Get(policy, "is_active", TRUE)
        THEN acc
        ELSE CASE rule_type = "velocity" ->
                    IF \/ Truthy(config.max_daily_usd) /\ MinRaises(config.max_daily_usd)
                       \/ Truthy(config.max_per_tx_usd) /\ MinRaises(config.max_per_tx_usd)
                       \/ /\ Truthy(config.require_2fa_above_usd)
                          /\ MinRaises(config.require_2fa_above_usd)
                    THEN LimitsRaised
                    ELSE [acc EXCEPT
                            !.daily_limit_usd = TightenLimit(@, config.max_daily_usd),
                            !.per_tx_limit_usd = TightenLimit(@, config.max_per_tx_usd),
                            !.requires_2fa_above_usd =
                                TightenLimit(@, config.require_2fa_above_usd)]
               [] rule_type = "timelock" ->
                    IF config.block_start_hour # None /\ config.block_end_hour # None
                    THEN [acc EXCEPT !.blocked_hours =
                            Append(@, [start |-> config.block_start_hour,
                                       end |-> config.block_end_hour,
                                       timezone |-> config.timezone])]
                    ELSE acc
               [] rule_type = "whitelist" ->
                    [acc EXCEPT !.whitelist_mode = config.mode]
               [] OTHER -> acc

RECURSIVE LimitsLoop(_, _)
LimitsLoop(ps, n) ==
    IF n = 0 THEN InitialLimits ELSE LimitsStep(LimitsLoop(ps, n - 1), ps[n])

\* if limits[key] == float("inf"): limits[key] = None
InfToNone(value) == IF value = Infinity THEN None ELSE value

GetApplicableLimits(ps) ==
    LET acc == LimitsLoop(ps, Len(ps))
    IN  IF acc = LimitsRaised THEN LimitsRaised
        ELSE [acc EXCEPT !.daily_limit_usd = InfToNone(@),
                         !.per_tx_limit_usd = InfToNone(@),
                         !.requires_2fa_above_usd = InfToNone(@)]

\* The (max_daily_usd, max_per_tx_usd, require_2fa_above_usd) of the velocity records.
LimitConfigs ==
    {VelocityConfig(None, None, None, None, None),
     VelocityConfig(0, None, None, None, None),
     VelocityConfig(None, 0, None, None, None),
     VelocityConfig(2, 3, 0, None, None),
     VelocityConfig(3, 2, 2, None, None),
     VelocityConfig(None, NotANumber, 3, None, None)}

\* The records at position i of the list: active velocity records, an inactive
\* one, one without is_active, one without config, a whitelist and a timelock one.
LimitRecordsAt(i) ==
    {PolicyRecord("velocity", RuleName(i), c, 1, TRUE) : c \in LimitConfigs}
    \cup {PolicyRecord("velocity", RuleName(i), VelocityConfig(1, 1, 1, None, None),
                       1, FALSE),
          Without(PolicyRecord("velocity", RuleName(i),
                               VelocityConfig(3, 3, 3, None, None), 1, TRUE),
                  {"is_active"}),
          Without(PolicyRecord("velocity", RuleName(i),
                               VelocityConfig(None, None, None, None, None), 1, TRUE),
                  {"config"}),
          PolicyRecord("whitelist", RuleName(i),
                       WhitelistConfig("block_unknown", FALSE, None), 1, TRUE),
          PolicyRecord("timelock", RuleName(i), TimelockConfig(22, 6, "UTC", FALSE),
                       1, TRUE)}

LimitRecordLists ==
    UNION {{ps \in [1..n -> UNION {LimitRecordsAt(i) : i \in 1..n}] :
                \A i \in 1..n : ps[i] \in LimitRecordsAt(i)} : n \in 0..MaxRules}

\* limits = await evaluator.get_applicable_limits(user_tier, policies)
GetLimits ==
    /\ pc = "idle"
    /\ pc' = "limits"
    /\ \E ps \in LimitRecordLists :
          /\ policies' = ps
          /\ limits' = GetApplicableLimits(ps)
    /\ UNCHANGED <<rules, registry, tx, decisions, failed, result, args, tasks>>

\* result = await evaluator.evaluate_transaction(..., policies=policies, ...):
\* load_rules_from_config(policies), then execute(context).
EvaluateLimited ==
    /\ pc = "limits"
    /\ pc' = "done"
    /\ rules' = LoadRulesFromConfig(policies, registry)
    /\ \E v \in Amounts, o \in DailyOutflows, duress \in BOOLEAN :
          Execute(rules', EvaluatorContext(v, o, FALSE, Noon, duress))
    /\ UNCHANGED <<registry, policies, args, limits, tasks>>

\* The caller drops the limits, the result and the evaluator.
DropEvaluator ==
    /\ pc \in {"limits", "done"}
    /\ pc' = "idle"
    /\ rules' = <<>>
    /\ policies' = <<>>
    /\ tx' = NoTx
    /\ decisions' = <<>>
    /\ failed' = 0
    /\ result' = NoResult
    /\ limits' = NoLimits
    /\ UNCHANGED <<registry, args, tasks>>

NextLimits == GetLimits \/ EvaluateLimited \/ DropEvaluator

SpecLimits == InitEval /\ [][NextLimits]_vars

Reported == pc \in {"limits", "done"}

\* The active velocity records of the list given to get_applicable_limits.
ActiveVelocity ==
    {i \in 1..Len(policies) :
        /\ Get(policies[i], "is_active", TRUE)
        /\ Get(policies[i], "rule_type", NoRuleType) = "velocity"}

\* The values the active velocity records specify for a key.
Specified(key) ==
    {Get(policies[i], "config", EmptyConfig("velocity"))[key] : i \in ActiveVelocity}
        \ {None}

MinOf(values) == CHOOSE m \in values : \A v \in values : m <= v

MinimumSpecified(key) ==
    IF Specified(key) = {} THEN None ELSE MinOf(Specified(key))

\* C25: get_applicable_limits returns, for each of the three thresholds, the minimum
\* of the value over the active velocity records that specify it, and None when
\* none does; inactive records and records of other types do not count.
C25_LimitsAreMinimum ==
    Reported =>
        /\ limits # LimitsRaised
        /\ limits.daily_limit_usd = MinimumSpecified("max_daily_usd")
        /\ limits.per_tx_limit_usd = MinimumSpecified("max_per_tx_usd")
        /\ limits.requires_2fa_above_usd = MinimumSpecified("require_2fa_above_usd")

Evaluated30 == pc = "done" /\ limits # LimitsRaised /\ ~tx.duress_mode_active

\* Some velocity rule of the loaded list blocks the transaction with the reason.
VelocityBlocksOn(reason) ==
    \E i \in 1..Len(rules) :
        /\ rules[i].rule_type = "velocity"
        /\ VelocityEvaluate(rules[i].config, tx) = Returns(block(reason))

\* C30: the limits get_applicable_limits reports agree with what evaluate_transaction
\* enforces for the same records: above a reported per-transaction or daily limit
\* every non-duress transaction is blocked, and where None is reported no velocity
\* rule blocks on that limit.
C30_LimitsAgreeWithEnforcement ==
    Evaluated30 =>
        /\ (limits.per_tx_limit_usd # None /\ tx.value_usd > limits.per_tx_limit_usd)
                => result.decision = BLOCK
        /\ limits.per_tx_limit_usd = None => ~VelocityBlocksOn("per_tx_limit")
        /\ (/\ limits.daily_limit_usd # None
            /\ tx.daily_outflow_usd + tx.value_usd > limits.daily_limit_usd)
                => result.decision = BLOCK
        /\ limits.daily_limit_usd = None => ~VelocityBlocksOn("daily_limit")

\* C27: for every result execute() returns, delay_seconds is non-null exactly when
\* the decision is DELAY; a BLOCK, REQUIRE_2FA, WARN or ALLOW result carries no
\* delay, also when a delaying rule was evaluated before the blocking one.
C27_DelayOnlyOnDelay ==
    Done => (result.delay_seconds # None <=> result.decision = DELAY)

\* C28: for every result execute() returns (duress, rule error or aggregation),
\* blocking_rule is non-null exactly when the decision is BLOCK or DELAY.
C28_BlockingRuleOnlyOnBlockOrDelay ==
    Done => (result.blocking_rule # NoRule <=> result.decision \in {BLOCK, DELAY})

\* A delay aggregated after a 2FA demand and a warning names the delaying rule.
C28_Witness ==
    /\ Aggregated /\ Len(decisions) = 2
    /\ decisions[1].decision.require_2fa /\ decisions[1].decision.warnings # <<>>
    /\ ~Truthy(decisions[1].decision.delay_seconds)
    /\ result.decision = DELAY
    /\ result.blocking_rule = decisions[2].rule.name

(***************************************************************************)
(* SpecTasks: two asyncio tasks, each awaiting evaluate_transaction once   *)
(* on one shared PolicyEvaluator.  A task runs without interruption up to  *)
(* "await rule.evaluate(context)" (executor.py line 186), the only place   *)
(* where the event loop can switch to the other task.  A task keeps the    *)
(* locals of its call: the list object its for loop iterates, the position *)
(* of the iterator, the rule being awaited and the decisions collected.    *)
(* The field overwritten records history for the properties: another task  *)
(* ran load_rules_from_config while this one was suspended in its loop.    *)
(***************************************************************************)
Callers == {"a", "b"}

IdleTask ==
    [pc |-> "idle", policies |-> <<>>, tx |-> NoTx, iterated |-> <<>>, index |-> 0,
     current |-> NoRule, decisions |-> <<>>, result |-> NoResult, overwritten |-> FALSE]

\* The records at position i of a task's policy list: a velocity rule that blocks
\* amounts above 2, a whitelist rule that quarantines new addresses for an hour
\* and, at the first position, a velocity rule whose limit does not parse.
TaskRecordsAt(i) ==
    {PolicyRecord("velocity", RuleName(i), VelocityConfig(None, 2, None, None, None),
                  1, TRUE),
     PolicyRecord("whitelist", RuleName(i), WhitelistConfig(NoMode, FALSE, 1), 2, TRUE)}
    \cup (IF i = 1
          THEN {PolicyRecord("velocity", RuleName(i),
                             VelocityConfig(None, NotANumber, None, None, None), 1, TRUE)}
          ELSE {})

TaskPolicyLists ==
    UNION {{ps \in [1..n -> UNION {TaskRecordsAt(i) : i \in 1..n}] :
                \A i \in 1..n : ps[i] \in TaskRecordsAt(i)} : n \in 0..MaxRules}

TaskAmount == 3

InitTasks ==
    /\ rules = <<>>
    /\ registry = BuiltinRuleTypes
    /\ policies = <<>>
    /\ tx = NoTx
    /\ decisions = <<>>
    /\ failed = 0
    /\ result = NoResult
    /\ pc = "idle"
    /\ args = NoArgs
    /\ limits = NoLimits
    /\ tasks = [c \in Callers |-> IdleTask]

\* Mutant: the old rule list is kept and the new rules are added to it.
Installed_KeepsOld(old, ps, reg) == SortByPriority(old \o Instantiate(ps, Len(ps), reg))

\* load_rules_from_config: self.rules = [] drops the old list, whatever it held.
Installed(old, ps, reg) == LoadRulesFromConfig(ps, reg)

\* Mutant: the loop reads whatever list the executor holds now.
IteratedList_Live(task) == rules

\* for rule in self.rules: the iterator keeps the list object self.rules named when
\* the loop started; load_rules_from_config binds a new object and leaves it alone.
IteratedList(task) == task.iterated

\* The task returns from execute() and evaluate_transaction with the result.
Finished(task, r) ==
    [task EXCEPT !.pc = "done", !.current = NoRule, !.result = r]

\* The iterator yields the rule at the next position and evaluate() is awaited.
Awaiting(task, n, rs) ==
    [task EXCEPT !.pc = "awaiting", !.index = n, !.current = rs[n]]

\* The for statement asks the iterator for the rule after position n; the loop ends
\* when the list has none and the decisions are aggregated.
Advance(task, n, rs) ==
    IF n + 1 <= Len(rs)
    THEN {Awaiting(task, n + 1, rs)}
    ELSE {Finished(task, r) : r \in AggregateDecisions(task.decisions)}

\* Another task's load_rules_from_config ran while this one was inside its loop.
NoteLoad(task) ==
    IF task.pc = "awaiting" THEN [task EXCEPT !.overwritten = TRUE] ELSE task

\* evaluate_transaction up to its first suspension: load_rules_from_config(policies),
\* the context, then execute() until the first rule's evaluate() is awaited, or to
\* its end on the duress path and with an empty rule list.
StartTask(c) ==
    /\ tasks[c].pc = "idle"
    /\ \E ps \in TaskPolicyLists, duress \in BOOLEAN :
          LET t == EvaluatorContext(TaskAmount, 0, TRUE, Noon, duress)
              rs == Installed(rules, ps, registry)
              called == [tasks[c] EXCEPT !.policies = ps, !.tx = t, !.iterated = rs]
          IN  /\ rules' = rs
              /\ \E next \in (IF IsDuress(t) THEN {Finished(called, DuressResult)}
                              ELSE Advance(called, 0, rs)) :
                    tasks' = [d \in Callers |->
                                IF d = c THEN next ELSE NoteLoad(tasks[d])]
    /\ UNCHANGED <<registry, policies, tx, decisions, failed, result, pc, args, limits>>

\* The awaited evaluate() completes: it raised and execute() returns the error
\* result, or its decision is appended and the loop goes on.
ResumeTask(c) ==
    /\ tasks[c].pc = "awaiting"
    /\ \E out \in Evaluate(tasks[c].current, tasks[c].tx) :
          IF out.raises
          THEN tasks' = [tasks EXCEPT ![c] =
                            Finished(@, ErrorResult(@.decisions, @.current))]
          ELSE LET collected ==
                       [tasks[c] EXCEPT !.decisions =
                            Append(@, [rule |-> tasks[c].current,
                                       decision |-> out.decision])]
               IN  \E next \in Advance(collected, tasks[c].index,
                                       IteratedList(tasks[c])) :
                      tasks' = [tasks EXCEPT ![c] = next]
    /\ UNCHANGED <<rules, registry, policies, tx, decisions, failed, result, pc, args,
                   limits>>

NextTasks == \E c \in Callers : StartTask(c) \/ ResumeTask(c)

SpecTasks == InitTasks /\ [][NextTasks]_vars

\* What a PolicyEvaluator constructed for this call alone loads and returns.
FreshRules(task) == LoadRulesFromConfig(task.policies, BuiltinRuleTypes)
FreshResults(task) == ExecuteResults(FreshRules(task), task.tx)

TaskDone(c) == tasks[c].pc = "done"
TaskStarted(c) == tasks[c].pc \in {"awaiting", "done"}

\* No load ran while a call was in progress: the calls came one after the other.
Sequential == \A c \in Callers : ~tasks[c].overwritten

\* The rules the task has evaluated so far, in the order it evaluated them.
EvaluatedRules(task) == [i \in 1..Len(task.decisions) |-> task.decisions[i].rule]

IsPrefix(s, t) == Len(s) <= Len(t) /\ \A i \in 1..Len(s) : s[i] = t[i]

\* C26: no state leaks between evaluate_transaction calls made one after the other
\* on one PolicyEvaluator: each call returns what a freshly constructed evaluator
\* returns for the same arguments, and evaluates no rule loaded for an earlier call.
C26_NoStateLeaks ==
    \A c \in Callers :
        (Sequential /\ TaskDone(c)) =>
            /\ tasks[c].result \in FreshResults(tasks[c])
            /\ Len(tasks[c].iterated) = Len(FreshRules(tasks[c]))
            /\ \A i \in 1..Len(tasks[c].decisions) :
                    tasks[c].decisions[i].rule \in Range(FreshRules(tasks[c]))

\* Two calls one after the other with different rule lists, both evaluated in full.
C26_Witness ==
    /\ Sequential
    /\ \A c \in Callers :
          /\ TaskDone(c) /\ ~tasks[c].tx.duress_mode_active
          /\ Len(tasks[c].decisions) = 2
    /\ tasks["a"].iterated # tasks["b"].iterated
    /\ tasks["a"].result.decision # tasks["b"].result.decision

\* C29: an execute() in progress is unaffected by another task running
\* load_rules_from_config or evaluate_transaction on the same executor while it is
\* suspended in a rule's evaluate(): it evaluates the rules, in the order, of the
\* list installed when its loop started, and returns the result for its own
\* policies.
C29_InterleavedCallsKeepTheirRules ==
    \A c \in Callers :
        (TaskStarted(c) /\ ~tasks[c].tx.duress_mode_active) =>
            /\ IsPrefix(EvaluatedRules(tasks[c]), FreshRules(tasks[c]))
            /\ tasks[c].pc = "awaiting" =>
                    /\ tasks[c].index <= Len(FreshRules(tasks[c]))
                    /\ tasks[c].current = FreshRules(tasks[c])[tasks[c].index]
            /\ TaskDone(c) =>
                    /\ tasks[c].result \in FreshResults(tasks[c])
                    /\ \/ Len(tasks[c].decisions) = Len(FreshRules(tasks[c]))
                       \/ /\ Len(tasks[c].decisions) < Len(FreshRules(tasks[c]))
                          /\ tasks[c].result.blocking_rule =
                                ErrorBlockingRule(
                                    FreshRules(tasks[c])[Len(tasks[c].decisions) + 1].name)

\* A call finished with the result for its own two rules although the other task
\* installed a different list while it was suspended.
C29_Witness ==
    /\ TaskDone("a") /\ tasks["a"].overwritten
    /\ Len(tasks["a"].decisions) = 2
    /\ rules # tasks["a"].iterated
    /\ rules = tasks["b"].iterated
    /\ TaskDone("b")
    /\ tasks["a"].result.decision # tasks["b"].result.decision

====
